---- MODULE Spec2Model ----
(***************************************************************************)
(* Model of the Comfy Masking API gateway (src/app.py): one /mask request  *)
(* driven against a remote ComfyUI engine.  Strings that the code scans    *)
(* character by character (URLs) are sequences of tokens; Python dicts are *)
(* functions; a dict whose iteration order matters (the "outputs" of a     *)
(* history entry) is a sequence of <<key, value>> pairs.  The clock is in  *)
(* milliseconds.                                                           *)
(***************************************************************************)
EXTENDS Integers, Sequences, FiniteSets, TLC

VARIABLES
    pc,              \* position of the mask() handler
    now,             \* time.time() in milliseconds
    MAX_RETRIES,     \* env MAX_RETRIES, read at import
    INPUT_NODE_ID,   \* env INPUT_NODE_ID, read at import
    uploadFailN,     \* remote: the first uploadFailN upload attempts fail
    file_filename,   \* file.filename as sent by the caller ("" when none)
    img_bytes,       \* await file.read()
    original_name,   \* mask(): original_name
    effective_comfy, \* mask(): effective_comfy
    stamped,         \* _upload_to_comfy: stamped
    attempt,         \* _upload_to_comfy: loop index of range(MAX_RETRIES)
    last_err,        \* _upload_to_comfy: last_err
    comfy_name,      \* mask(): comfy_name
    template,        \* the document json.load returned, before binding
    graph,           \* mask(): graph
    pid,             \* mask(): pid
    deadline,        \* _poll_history: deadline
    polled,          \* the last body r.json() yielded in _poll_history
    history,         \* mask(): history
    out_bytes,       \* mask(): out_bytes
    calls,           \* number of requests issued per remote route
    sent,            \* the last request issued to the remote engine
    seen_artifacts,  \* remote: some history answer listed a non-empty images
    delivered,       \* remote: the payload of the answer to the view request
    uploads,         \* remote: (filename, bytes) of each upload attempt received
    posted,          \* remote: the body of the prompt request received
    last_status,     \* remote: status of the last answer to a history request
    sleeps,          \* number of time.sleep calls made in each loop
    other_stamped,   \* the stamped name made by a request in another worker
    args,            \* arguments of a function called on its own
    result           \* what the request ended with

vars == <<pc, now, MAX_RETRIES, INPUT_NODE_ID, uploadFailN, file_filename,
          img_bytes, original_name, effective_comfy, stamped, attempt,
          last_err, comfy_name, template, graph, pid, deadline, polled,
          history, out_bytes, calls, sent, seen_artifacts, delivered,
          uploads, posted, last_status, sleeps, other_stamped, args, result>>

----------------------------------------------------------------------------
(* Bounds of the model *)

MaxBudget == 3      \* retry budgets 0..MaxBudget
MaxFailN == 4       \* the remote fails at most this many uploads in a row
MaxUrlLen == 2      \* every URL of at most this many tokens is given to _pick_comfy_url

\* how long a remote request may take, in milliseconds
RequestMs == {0, 5000}

\* env POLL_TIMEOUT_S of the deployment modelled, in seconds (the default
\* is 120): six polling intervals
POLL_TIMEOUT_S == 30

(* Configuration defaults of the program *)

OUTPUT_NODE_ID == "455"
POLL_INTERVAL_S == 5
UPLOAD_BACKOFF_S == 2

----------------------------------------------------------------------------
(* Python values *)

EmptyDict == [k \in {} |-> k]
NoneValue == [none |-> TRUE]
NoneStr == "<None>"

\* dict.get(key, default)
DictGet(d, key, default) == IF key \in DOMAIN d THEN d[key] ELSE default

\* truthiness of a value that is None or a dict
Truthy(v) == v # NoneValue /\ DOMAIN v # {}

\* truthiness of a value that is None or a str
StrTruthy(s) == s # NoneStr /\ s # ""

\* f"{s}" of a value that is None or a str
Format(s) == IF s = NoneStr THEN "None" ELSE s

\* truthiness of a list
ListTruthy(l) == Len(l) > 0

\* result records: an exception that left mask(), or the response
NoResult == [type |-> "none", status_code |-> 0, detail |-> "", stage |-> "",
             content |-> "", filename |-> ""]

HTTPException(code, text, stg) ==
    [type |-> "HTTPException", status_code |-> code, detail |-> text,
     stage |-> stg, content |-> "", filename |-> ""]

\* an exception of the requests library (or of the interpreter) that no
\* handler in app.py catches
Uncaught(exc, stg) ==
    [type |-> exc, status_code |-> 0, detail |-> "", stage |-> stg,
     content |-> "", filename |-> ""]

StreamingResponse(bytes, name) ==
    [type |-> "StreamingResponse", status_code |-> 200, detail |-> "",
     stage |-> "respond", content |-> bytes, filename |-> name]

----------------------------------------------------------------------------
(* URLs: sequences of tokens, "/" and " " being single characters *)

NoneUrl == <<"<None>">>

RECURSIVE RStrip(_, _)
\* str.rstrip(chars)
RStrip(s, chars) ==
    IF Len(s) > 0 /\ s[Len(s)] \in chars
    THEN RStrip(SubSeq(s, 1, Len(s) - 1), chars)
    ELSE s

RECURSIVE LStrip(_, _)
LStrip(s, chars) ==
    IF Len(s) > 0 /\ s[1] \in chars
    THEN LStrip(SubSeq(s, 2, Len(s)), chars)
    ELSE s

Whitespace == {" "}

\* str.strip()
Strip(s) == LStrip(RStrip(s, Whitespace), Whitespace)

\* "url and url.strip()"
UrlGiven(url) == url # NoneUrl /\ Len(url) > 0 /\ Len(Strip(url)) > 0

\* a normalization that only appends the separator
NormalizeAppend(url) == url \o <<"/">>

Normalize(url) == RStrip(url, {"/"}) \o <<"/">>

\* a choice that looks at the header first
PickHeaderFirst(form_url, header_url, query_url) ==
    IF UrlGiven(header_url) THEN Normalize(header_url)
    ELSE IF UrlGiven(form_url) THEN Normalize(form_url)
    ELSE IF UrlGiven(query_url) THEN Normalize(query_url)
    ELSE NoneUrl

\* _pick_comfy_url: the normalized first candidate given, NoneUrl when the
\* function raises
_pick_comfy_url(form_url, header_url, query_url) ==
    IF UrlGiven(form_url) THEN Normalize(form_url)
    ELSE IF UrlGiven(header_url) THEN Normalize(header_url)
    ELSE IF UrlGiven(query_url) THEN Normalize(query_url)
    ELSE NoneUrl

\* f"{base_url.rstrip('/')}/<route>"
RouteUrl(base_url, route) == RStrip(base_url, {"/"}) \o <<"/">> \o route

UrlInputs == {NoneUrl, <<>>, <<" ">>, <<"host">>, <<"host", "/">>,
              <<"host", "/", "/">>}

----------------------------------------------------------------------------
(* The request *)

Routes == {"upload/image", "prompt", "history", "view"}

FileNames == {"", "cat.png", "result.png"}

\* file.filename or "image.png"
OriginalName(filename) == IF StrTruthy(filename) THEN filename ELSE "image.png"

\* f"{int(time.time()*1000)}_{original_name}"
Stamp(ms, name) == ToString(ms) \o "_" \o name

\* a loop that makes one attempt too many
RangeDoneLate(i, n) == i > n

\* "for _ in range(n)" has run out after i iterations
RangeDone(i, n) == i >= n

Init ==
    /\ pc = "require_key"
    /\ now = 0
    /\ MAX_RETRIES \in 0..MaxBudget
    /\ INPUT_NODE_ID \in {"54", "load"}
    /\ uploadFailN \in 0..MaxFailN
    /\ file_filename = ""
    /\ img_bytes = ""
    /\ original_name = ""
    /\ effective_comfy = NoneUrl
    /\ stamped = ""
    /\ attempt = 0
    /\ last_err = NoneStr
    /\ comfy_name = NoneStr
    /\ template = EmptyDict
    /\ graph = EmptyDict
    /\ pid = NoneStr
    /\ deadline = 0
    /\ polled = NoneValue
    /\ history = NoneValue
    /\ out_bytes = ""
    /\ calls = [r \in Routes |-> 0]
    /\ sent = NoneValue
    /\ seen_artifacts = FALSE
    /\ delivered = ""
    /\ uploads = <<>>
    /\ posted = NoneValue
    /\ last_status = 0
    /\ sleeps = [upload |-> 0, poll |-> 0]
    /\ other_stamped = ""
    /\ args = NoneValue
    /\ result = NoResult

Raise(exc) == /\ result' = exc
              /\ pc' = "done"

\* _require_key(x_api_key)
RequireKey ==
    /\ pc = "require_key"
    /\ \E authorized \in BOOLEAN :
         IF authorized
         THEN /\ pc' = "pick_url"
              /\ UNCHANGED result
         ELSE Raise(HTTPException(401, "Unauthorized", "auth"))
    /\ UNCHANGED <<now, MAX_RETRIES, INPUT_NODE_ID, uploadFailN, file_filename,
                   img_bytes, original_name, effective_comfy, stamped, attempt,
                   last_err, comfy_name, template, graph, pid, deadline,
                   polled, history, out_bytes, calls, sent>>
    /\ UNCHANGED <<seen_artifacts, delivered>>
    /\ UNCHANGED <<uploads, posted, last_status, sleeps, other_stamped, args>>

\* effective_comfy = _pick_comfy_url(...), then "0) read input"
PickUrlAndRead ==
    /\ pc = "pick_url"
    /\ \E form_url \in UrlInputs, header_url \in UrlInputs, query_url \in UrlInputs :
         LET url == _pick_comfy_url(form_url, header_url, query_url) IN
         IF url = NoneUrl
         THEN /\ Raise(HTTPException(400, "comfy_url must be provided", "endpoint"))
              /\ UNCHANGED <<effective_comfy, file_filename, img_bytes, original_name>>
         ELSE /\ effective_comfy' = url
              /\ \E name \in FileNames :
                   /\ file_filename' = name
                   /\ original_name' = OriginalName(name)
              /\ img_bytes' = "IMGDATA"
              /\ pc' = "upload"
              /\ UNCHANGED result
    /\ UNCHANGED <<now, MAX_RETRIES, INPUT_NODE_ID, uploadFailN, stamped, attempt,
                   last_err, comfy_name, template, graph, pid, deadline,
                   polled, history, out_bytes, calls, sent>>
    /\ UNCHANGED <<seen_artifacts, delivered>>
    /\ UNCHANGED <<uploads, posted, last_status, sleeps, other_stamped, args>>

\* _upload_to_comfy, lines before the loop
UploadEnter ==
    /\ pc = "upload"
    /\ stamped' = Stamp(now, original_name)
    /\ last_err' = NoneStr
    /\ attempt' = 0
    /\ pc' = "upload_loop"
    /\ UNCHANGED <<now, MAX_RETRIES, INPUT_NODE_ID, uploadFailN, file_filename,
                   img_bytes, original_name, effective_comfy, comfy_name,
                   template, graph, pid, deadline, polled, history, out_bytes,
                   calls, sent, result>>
    /\ UNCHANGED <<seen_artifacts, delivered>>
    /\ UNCHANGED <<uploads, posted, last_status, sleeps, other_stamped, args>>

\* a request whose name is stamped anew at every attempt
UploadRequestRestamped ==
    [route |-> "upload/image",
     url |-> RouteUrl(effective_comfy, <<"upload/image">>),
     filename |-> Stamp(now, original_name), bytes |-> img_bytes]

\* files={"image": (stamped, img_bytes)} posted to upload/image
UploadRequest ==
    [route |-> "upload/image",
     url |-> RouteUrl(effective_comfy, <<"upload/image">>),
     filename |-> stamped, bytes |-> img_bytes]

\* one iteration of the retry loop: the POST, then either "return stamped"
\* or the except block with its sleep
UploadAttempt ==
    /\ pc = "upload_loop"
    /\ ~RangeDone(attempt, MAX_RETRIES)
    /\ calls' = [calls EXCEPT !["upload/image"] = @ + 1]
    /\ sent' = UploadRequest
    /\ uploads' = Append(uploads, [filename |-> UploadRequest.filename,
                                   bytes |-> UploadRequest.bytes])
    /\ \E took \in RequestMs :
         IF calls["upload/image"] < uploadFailN
         THEN /\ \E e \in {"ConnectionError", "HTTPError"} : last_err' = e
              /\ now' = now + took + UPLOAD_BACKOFF_S * 1000
              /\ sleeps' = [sleeps EXCEPT !.upload = @ + 1]
              /\ attempt' = attempt + 1
              /\ UNCHANGED <<pc, comfy_name>>
         ELSE /\ comfy_name' = stamped
              /\ now' = now + took
              /\ pc' = "load"
              /\ UNCHANGED sleeps
              /\ attempt' = 0           \* the locals of _upload_to_comfy
              /\ last_err' = NoneStr    \* end with its return
    /\ UNCHANGED <<MAX_RETRIES, INPUT_NODE_ID, uploadFailN, file_filename,
                   img_bytes, original_name, effective_comfy, stamped,
                   template, graph, pid, deadline, polled, history, out_bytes,
                   result>>
    /\ UNCHANGED <<seen_artifacts, delivered>>
    /\ UNCHANGED <<posted, last_status, other_stamped, args>>

\* a loop that runs out without raising: the upload is taken as done
UploadExhaustedIgnored ==
    /\ pc = "upload_loop"
    /\ RangeDone(attempt, MAX_RETRIES)
    /\ comfy_name' = stamped
    /\ pc' = "load"
    /\ UNCHANGED <<now, MAX_RETRIES, INPUT_NODE_ID, uploadFailN, file_filename,
                   img_bytes, original_name, effective_comfy, stamped, attempt,
                   last_err, template, graph, pid, deadline, polled, history,
                   out_bytes, calls, sent, seen_artifacts, delivered, result>>
    /\ UNCHANGED <<uploads, posted, last_status, sleeps, other_stamped, args>>

\* the loop ran out: raise HTTPException(502)
UploadExhausted ==
    /\ pc = "upload_loop"
    /\ RangeDone(attempt, MAX_RETRIES)
    /\ Raise(HTTPException(502, "Upload failed: " \o Format(last_err), "upload"))
    /\ UNCHANGED <<now, MAX_RETRIES, INPUT_NODE_ID, uploadFailN, file_filename,
                   img_bytes, original_name, effective_comfy, stamped, attempt,
                   last_err, comfy_name, template, graph, pid, deadline,
                   polled, history, out_bytes, calls, sent>>
    /\ UNCHANGED <<seen_artifacts, delivered>>
    /\ UNCHANGED <<uploads, posted, last_status, sleeps, other_stamped, args>>

----------------------------------------------------------------------------
(* Graph templates and binding *)

NodeLoad == [class_type |-> "LoadImage",
             inputs |-> [image |-> "example.png", upload |-> "image"]]
NodeBare == [class_type |-> "LoadImage"]
NodeSave == [class_type |-> "SaveImage", inputs |-> [images |-> "54"]]

\* what json.load can return for the workflow file; JSON object keys are
\* always strings
Templates ==
    { ("54" :> NodeLoad) @@ ("455" :> NodeSave),
      ("54" :> NodeBare) @@ ("455" :> NodeSave),
      ("54" :> EmptyDict) @@ ("455" :> NodeSave),
      ("455" :> NodeSave),
      ("load" :> NodeLoad) @@ ("455" :> NodeSave) }

\* the strings int() parses
NumericIds == {"54", "455"}

\* graph.get(int(INPUT_NODE_ID)): no key of a loaded JSON object is an int
IntKeyGet(g, id) == NoneValue

\* the lookup "graph.get(ID) or graph.get(int(ID))" evaluates int(ID)
IntParsed(g, id) == ~Truthy(DictGet(g, id, NoneValue))

\* node = graph.get(INPUT_NODE_ID) or graph.get(int(INPUT_NODE_ID))
LookupNode(g, id) ==
    IF Truthy(DictGet(g, id, NoneValue))
    THEN DictGet(g, id, NoneValue)
    ELSE IntKeyGet(g, id)

\* inputs["image"] = name
SetImage(inputs, name) ==
    [k \in DOMAIN inputs \cup {"image"} |->
        IF k = "image" THEN name ELSE inputs[k]]

\* a binding that replaces the inputs mapping instead of updating it
BindNodeReplace(node, name) ==
    [k \in DOMAIN node \cup {"inputs"} |->
        IF k = "inputs" THEN [image |-> name] ELSE node[k]]

\* node.setdefault("inputs", {})["image"] = name
BindNode(node, name) ==
    [k \in DOMAIN node \cup {"inputs"} |->
        IF k = "inputs"
        THEN SetImage(DictGet(node, "inputs", EmptyDict), name)
        ELSE node[k]]

\* the graph after the in-place update of its node id
Bind(g, id, name) == [g EXCEPT ![id] = BindNode(g[id], name)]

\* "2) load workflow JSON": open + json.load, or the except branch
LoadWorkflow ==
    /\ pc = "load"
    /\ \/ \E t \in Templates :
            /\ template' = t
            /\ graph' = t
            /\ pc' = "bind"
            /\ UNCHANGED result
       \/ /\ Raise(HTTPException(500, "Failed to read workflow JSON", "load"))
          /\ UNCHANGED <<template, graph>>
    /\ UNCHANGED <<now, MAX_RETRIES, INPUT_NODE_ID, uploadFailN, file_filename,
                   img_bytes, original_name, effective_comfy, stamped, attempt,
                   last_err, comfy_name, pid, deadline, polled, history,
                   out_bytes, calls, sent>>
    /\ UNCHANGED <<seen_artifacts, delivered>>
    /\ UNCHANGED <<uploads, posted, last_status, sleeps, other_stamped, args>>

\* lines 148-151: look the input node up and set its inputs.image
BindGraph ==
    /\ pc = "bind"
    /\ IF IntParsed(graph, INPUT_NODE_ID) /\ INPUT_NODE_ID \notin NumericIds
       THEN /\ Raise(Uncaught("ValueError", "bind"))
            /\ UNCHANGED graph
       ELSE IF ~Truthy(LookupNode(graph, INPUT_NODE_ID))
       THEN /\ Raise(HTTPException(500, "Input node not found in workflow JSON", "bind"))
            /\ UNCHANGED graph
       ELSE /\ graph' = Bind(graph, INPUT_NODE_ID, comfy_name)
            /\ pc' = "queue"
            /\ UNCHANGED result
    /\ UNCHANGED <<now, MAX_RETRIES, INPUT_NODE_ID, uploadFailN, file_filename,
                   img_bytes, original_name, effective_comfy, stamped, attempt,
                   last_err, comfy_name, template, pid, deadline, polled,
                   history, out_bytes, calls, sent>>
    /\ UNCHANGED <<seen_artifacts, delivered>>
    /\ UNCHANGED <<uploads, posted, last_status, sleeps, other_stamped, args>>

----------------------------------------------------------------------------
(* Job submission *)

\* what the remote can answer: no answer at all (transport error), a status
\* with a body; body NoneValue is a body that is not JSON
TransportError == [status_code |-> 0, body |-> NoneValue]

Reply(code, b) == [status_code |-> code, body |-> b]

\* r.raise_for_status() raises
IsErrorStatus(code) == code >= 400

PromptReplies ==
    { TransportError,
      Reply(500, NoneValue),
      Reply(200, NoneValue),
      Reply(200, EmptyDict),
      Reply(200, [prompt_id |-> ""]),
      Reply(200, [prompt_id |-> "abc123"]) }

PromptRequest ==
    [route |-> "prompt", url |-> RouteUrl(effective_comfy, <<"prompt">>),
     json |-> [prompt |-> graph]]

\* _queue_prompt(graph, effective_comfy)
QueuePrompt ==
    /\ pc = "queue"
    /\ calls' = [calls EXCEPT !["prompt"] = @ + 1]
    /\ sent' = PromptRequest
    /\ posted' = PromptRequest.json
    /\ \E r \in PromptReplies, took \in RequestMs :
         /\ now' = now + took
         /\ IF r = TransportError
            THEN /\ Raise(Uncaught("requests.ConnectionError", "submit"))
                 /\ UNCHANGED pid
            ELSE IF IsErrorStatus(r.status_code)
            THEN /\ Raise(Uncaught("requests.HTTPError", "submit"))
                 /\ UNCHANGED pid
            ELSE IF r.body = NoneValue
            THEN /\ Raise(Uncaught("requests.JSONDecodeError", "submit"))
                 /\ UNCHANGED pid
            ELSE IF ~StrTruthy(DictGet(r.body, "prompt_id", NoneStr))
            THEN /\ Raise(HTTPException(500, "ComfyUI did not return prompt_id", "submit"))
                 /\ UNCHANGED pid
            ELSE /\ pid' = r.body.prompt_id
                 /\ pc' = "poll"
                 /\ UNCHANGED result
    /\ UNCHANGED <<MAX_RETRIES, INPUT_NODE_ID, uploadFailN, file_filename,
                   img_bytes, original_name, effective_comfy, stamped, attempt,
                   last_err, comfy_name, template, graph, deadline, polled,
                   history, out_bytes>>
    /\ UNCHANGED <<seen_artifacts, delivered>>
    /\ UNCHANGED <<uploads, last_status, sleeps, other_stamped, args>>

----------------------------------------------------------------------------
(* Status documents *)

D1 == [filename |-> "result.png"]
D2 == [filename |-> "mask.png", subfolder |-> "masks", type |-> "temp"]

\* "outputs" mappings in their enumeration order
OutputsDocs ==
    { <<>>,
      << <<"455", [images |-> <<D1>>]>> >>,
      << <<"9", [images |-> <<D2>>]>>, <<"455", [images |-> <<D1, D2>>]>> >>,
      << <<"455", [images |-> <<>>]>>, <<"9", [images |-> <<D1>>]>> >>,
      << <<"455", EmptyDict>>, <<"9", [images |-> <<D2>>]>> >>,
      << <<"7", [text |-> <<"x">>]>>, <<"9", [images |-> <<>>]>>,
         <<"12", [images |-> <<D2, D1>>]>>, <<"13", [images |-> <<D1>>]>> >>,
      << <<"455", [text |-> <<"x">>]>>, <<"9", [images |-> <<>>]>> >> }

\* bodies of a 200 answer to GET history/{p}
HistoryBodies(p) ==
    {EmptyDict, ("other" :> [outputs |-> << <<"455", [images |-> <<D1>>]>> >>]),
     (p :> EmptyDict)}
    \cup {(p :> [outputs |-> o]) : o \in OutputsDocs}

HistoryReplies(p) ==
    {TransportError, Reply(500, NoneValue), Reply(200, NoneValue)}
    \cup {Reply(200, b) : b \in HistoryBodies(p)}

\* outputs.get(key)
OutputsGet(outs, key) ==
    IF \E i \in 1..Len(outs) : outs[i][1] = key
    THEN outs[CHOOSE i \in 1..Len(outs) : outs[i][1] = key][2]
    ELSE NoneValue

RECURSIVE FirstWithImages(_, _)
\* "for _, v in outputs.items(): if v.get("images"): node = v; break"
FirstWithImages(outs, node) ==
    IF Len(outs) = 0 THEN node
    ELSE IF ListTruthy(DictGet(Head(outs)[2], "images", <<>>)) THEN Head(outs)[2]
    ELSE FirstWithImages(Tail(outs), node)

\* _poll_history, lines 63-68
PollSelect(outs) ==
    IF ~Truthy(OutputsGet(outs, OUTPUT_NODE_ID))
    THEN FirstWithImages(outs, OutputsGet(outs, OUTPUT_NODE_ID))
    ELSE OutputsGet(outs, OUTPUT_NODE_ID)

\* a selection that never looks past the preferred node
FetchSelectPreferredOnly(outs) == OutputsGet(outs, OUTPUT_NODE_ID)

\* _fetch_first_image, lines 76-81
FetchSelect(outs) ==
    IF ~Truthy(OutputsGet(outs, OUTPUT_NODE_ID))
    THEN FirstWithImages(outs, OutputsGet(outs, OUTPUT_NODE_ID))
    ELSE OutputsGet(outs, OUTPUT_NODE_ID)

\* "node and node.get("images")"
HasImages(node) == Truthy(node) /\ ListTruthy(DictGet(node, "images", <<>>))

\* _poll_history, lines 61-70: the body makes the poller return
PollReady(hist, p) ==
    /\ DOMAIN hist # {}
    /\ p \in DOMAIN hist
    /\ HasImages(PollSelect(DictGet(hist[p], "outputs", <<>>)))

----------------------------------------------------------------------------
(* Status polling *)

\* the answer is a status document for job p in which some output node has a
\* non-empty images sequence
ListsArtifacts(r, p) ==
    /\ r.status_code = 200
    /\ r.body # NoneValue
    /\ p \in DOMAIN r.body
    /\ \E i \in 1..Len(DictGet(r.body[p], "outputs", <<>>)) :
         ListTruthy(DictGet(DictGet(r.body[p], "outputs", <<>>)[i][2], "images", <<>>))

\* "while time.time() < deadline"
BeforeDeadline(t, d) == t < d

PollEnter ==
    /\ pc = "poll"
    /\ deadline' = now + POLL_TIMEOUT_S * 1000
    /\ pc' = "poll_loop"
    /\ UNCHANGED <<now, MAX_RETRIES, INPUT_NODE_ID, uploadFailN, file_filename,
                   img_bytes, original_name, effective_comfy, stamped, attempt,
                   last_err, comfy_name, template, graph, pid, polled,
                   history, out_bytes, calls, sent, result>>
    /\ UNCHANGED <<seen_artifacts, delivered>>
    /\ UNCHANGED <<uploads, posted, last_status, sleeps, other_stamped, args>>

\* a loop that sleeps only after a 200 answer
SleepsAfter200Only(r) == IF r.status_code = 200 THEN 1 ELSE 0

\* the number of "time.sleep(POLL_INTERVAL_S)" run after an answer that did
\* not make the poller return: line 71 is the last statement of the loop body
SleepsAfterReply(r) == 1

HistoryRequest ==
    [route |-> "history", url |-> RouteUrl(effective_comfy, <<"history", "/", pid>>),
     at |-> now]

\* one iteration of the while loop: the GET, then "return hist" or the sleep
PollIteration ==
    /\ pc = "poll_loop"
    /\ BeforeDeadline(now, deadline)
    /\ calls' = [calls EXCEPT !["history"] = @ + 1]
    /\ sent' = HistoryRequest
    /\ \E r \in HistoryReplies(pid), took \in RequestMs :
         /\ seen_artifacts' = (seen_artifacts \/ ListsArtifacts(r, pid))
         /\ last_status' = r.status_code
         /\ IF r = TransportError
            THEN /\ Raise(Uncaught("requests.ConnectionError", "poll"))
                 /\ now' = now + took
                 /\ UNCHANGED <<polled, history, sleeps>>
            ELSE IF r.status_code = 200 /\ r.body = NoneValue
            THEN /\ Raise(Uncaught("requests.JSONDecodeError", "poll"))
                 /\ now' = now + took
                 /\ UNCHANGED <<polled, history, sleeps>>
            ELSE IF r.status_code = 200 /\ PollReady(r.body, pid)
            THEN /\ polled' = r.body
                 /\ history' = r.body
                 /\ now' = now + took
                 /\ pc' = "fetch"
                 /\ UNCHANGED <<result, sleeps>>
            ELSE /\ polled' = IF r.status_code = 200 THEN r.body ELSE polled
                 /\ now' = now + took + SleepsAfterReply(r) * POLL_INTERVAL_S * 1000
                 /\ sleeps' = [sleeps EXCEPT !.poll = @ + SleepsAfterReply(r)]
                 /\ UNCHANGED <<pc, history, result>>
    /\ UNCHANGED <<MAX_RETRIES, INPUT_NODE_ID, uploadFailN, file_filename,
                   img_bytes, original_name, effective_comfy, stamped, attempt,
                   last_err, comfy_name, template, graph, pid, deadline,
                   out_bytes>>
    /\ UNCHANGED delivered
    /\ UNCHANGED <<uploads, posted, other_stamped, args>>

\* the loop condition fails: raise HTTPException(504)
PollTimeout ==
    /\ pc = "poll_loop"
    /\ ~BeforeDeadline(now, deadline)
    /\ Raise(HTTPException(504, "Timed out waiting for ComfyUI", "poll"))
    /\ UNCHANGED <<now, MAX_RETRIES, INPUT_NODE_ID, uploadFailN, file_filename,
                   img_bytes, original_name, effective_comfy, stamped, attempt,
                   last_err, comfy_name, template, graph, pid, deadline,
                   polled, history, out_bytes, calls, sent>>
    /\ UNCHANGED <<seen_artifacts, delivered>>
    /\ UNCHANGED <<uploads, posted, last_status, sleeps, other_stamped, args>>

----------------------------------------------------------------------------
(* Artifact download and the response *)

\* the last descriptor instead of the first
LastImage(node) == node.images[Len(node.images)]

\* info = node["images"][0]
FirstImage(node) == node.images[1]

\* the query parameters of the view request
ViewParams(info) ==
    [filename |-> info.filename,
     subfolder |-> DictGet(info, "subfolder", ""),
     type |-> DictGet(info, "type", "output")]

ViewReplies ==
    { [status_code |-> 0, content |-> ""],
      [status_code |-> 404, content |-> "missing"],
      [status_code |-> 200, content |-> "PNGDATA"],
      [status_code |-> 200, content |-> ""] }

ViewRequest(info) ==
    [route |-> "view", url |-> RouteUrl(effective_comfy, <<"view">>),
     params |-> ViewParams(info)]

\* a header that names the uploaded asset
ResponseFilenameRemote(original, remote_name) == remote_name

\* the filename of the Content-Disposition header
ResponseFilename(original, remote_name) == original

\* a check that only looks whether a node was found
FetchMissingNodeOnly(node) == ~Truthy(node)

\* "if not node or not node.get("images")"
FetchMissing(node) == ~Truthy(node) \/ ~ListTruthy(DictGet(node, "images", <<>>))

\* history[prompt_id]["outputs"] raises KeyError
NoOutputsKey(hist, p) == p \notin DOMAIN hist \/ "outputs" \notin DOMAIN hist[p]

\* _fetch_first_image(history, pid, effective_comfy) and the return of mask()
FetchAndRespond ==
    /\ pc = "fetch"
    /\ IF NoOutputsKey(history, pid)
       THEN /\ Raise(Uncaught("KeyError", "fetch"))
            /\ UNCHANGED <<now, out_bytes, calls, sent, delivered>>
       ELSE
       LET node == FetchSelect(history[pid]["outputs"]) IN
       IF FetchMissing(node)
       THEN /\ Raise(HTTPException(500, "No output images found", "fetch"))
            /\ UNCHANGED <<now, out_bytes, calls, sent, delivered>>
       ELSE IF "images" \notin DOMAIN node
       THEN /\ Raise(Uncaught("KeyError", "fetch"))
            /\ UNCHANGED <<now, out_bytes, calls, sent, delivered>>
       ELSE IF Len(node.images) = 0
       THEN /\ Raise(Uncaught("IndexError", "fetch"))
            /\ UNCHANGED <<now, out_bytes, calls, sent, delivered>>
       ELSE /\ calls' = [calls EXCEPT !["view"] = @ + 1]
            /\ sent' = ViewRequest(FirstImage(node))
            /\ \E r \in ViewReplies, took \in RequestMs :
                 /\ now' = now + took
                 /\ delivered' = r.content
                 /\ IF r.status_code = 0
                    THEN /\ Raise(Uncaught("requests.ConnectionError", "fetch"))
                         /\ UNCHANGED out_bytes
                    ELSE IF IsErrorStatus(r.status_code)
                    THEN /\ Raise(Uncaught("requests.HTTPError", "fetch"))
                         /\ UNCHANGED out_bytes
                    ELSE /\ out_bytes' = r.content
                         /\ Raise(StreamingResponse(r.content,
                                      ResponseFilename(original_name, comfy_name)))
    /\ UNCHANGED <<MAX_RETRIES, INPUT_NODE_ID, uploadFailN, file_filename,
                   img_bytes, original_name, effective_comfy, stamped, attempt,
                   last_err, comfy_name, template, graph, pid, deadline,
                   polled, history>>
    /\ UNCHANGED seen_artifacts
    /\ UNCHANGED <<uploads, posted, last_status, sleeps, other_stamped, args>>

Next ==
    \/ RequireKey
    \/ PickUrlAndRead
    \/ UploadEnter
    \/ UploadAttempt
    \/ UploadExhausted
    \/ LoadWorkflow
    \/ BindGraph
    \/ QueuePrompt
    \/ PollEnter
    \/ PollIteration
    \/ PollTimeout
    \/ FetchAndRespond

Spec == Init /\ [][Next]_vars

----------------------------------------------------------------------------
(* _fetch_first_image called on its own, on any status document *)

JobIds == {"abc123", "job2"}

\* further outputs mappings without any artifact
BareOutputsDocs ==
    { << <<"455", [images |-> <<>>]>>, <<"9", [text |-> <<"x">>]>> >>,
      << <<"455", [images |-> <<>>]>>, <<"9", [images |-> <<>>]>> >>,
      << <<"9", EmptyDict>> >> }

InitFetch ==
    /\ pc = "fetch"
    /\ now = 0
    /\ MAX_RETRIES = 0
    /\ INPUT_NODE_ID = "54"
    /\ uploadFailN = 0
    /\ \E name \in FileNames :
         /\ file_filename = name
         /\ original_name = OriginalName(name)
    /\ img_bytes = "IMGDATA"
    /\ effective_comfy \in {Normalize(u) : u \in {v \in UrlInputs : UrlGiven(v)}}
    /\ stamped = ""
    /\ attempt = 0
    /\ last_err = NoneStr
    /\ comfy_name = NoneStr
    /\ template = EmptyDict
    /\ graph = EmptyDict
    /\ pid \in JobIds
    /\ deadline = 0
    /\ polled = NoneValue
    /\ history \in HistoryBodies(pid)
                    \cup {(pid :> [outputs |-> o]) : o \in BareOutputsDocs}
    /\ out_bytes = ""
    /\ calls = [r \in Routes |-> 0]
    /\ sent = NoneValue
    /\ seen_artifacts = FALSE
    /\ delivered = ""
    /\ uploads = <<>>
    /\ posted = NoneValue
    /\ last_status = 0
    /\ sleeps = [upload |-> 0, poll |-> 0]
    /\ other_stamped = ""
    /\ args = [history |-> history, prompt_id |-> pid, base_url |-> effective_comfy]
    /\ result = NoResult

NextFetch == FetchAndRespond

SpecFetch == InitFetch /\ [][NextFetch]_vars

----------------------------------------------------------------------------
(* _pick_comfy_url called on its own, and the route URLs built on its result *)

UrlTokens == {"host", "/", " "}

\* longer URLs with several trailing separators
LongUrls == { <<"host", "/", "/">>, <<"host", "/", "/", "/">>,
              <<" ", "host", "/", "/">> }

\* None, every string of at most MaxUrlLen tokens, and the longer ones
Urls == {NoneUrl} \cup UNION {[1..n -> UrlTokens] : n \in 0..MaxUrlLen}
                 \cup LongUrls

InitUrl ==
    /\ pc = "pick_call"
    /\ now = 0
    /\ MAX_RETRIES = 0
    /\ INPUT_NODE_ID = "54"
    /\ uploadFailN = 0
    /\ file_filename = ""
    /\ img_bytes = ""
    /\ original_name = ""
    /\ effective_comfy = NoneUrl
    /\ stamped = ""
    /\ attempt = 0
    /\ last_err = NoneStr
    /\ comfy_name = NoneStr
    /\ template = EmptyDict
    /\ graph = EmptyDict
    /\ pid = "abc123"
    /\ deadline = 0
    /\ polled = NoneValue
    /\ history = NoneValue
    /\ out_bytes = ""
    /\ calls = [r \in Routes |-> 0]
    /\ sent = NoneValue
    /\ seen_artifacts = FALSE
    /\ delivered = ""
    /\ uploads = <<>>
    /\ posted = NoneValue
    /\ last_status = 0
    /\ sleeps = [upload |-> 0, poll |-> 0]
    /\ other_stamped = ""
    /\ args \in [form_url : Urls, header_url : Urls, query_url : Urls]
    /\ result = NoResult

\* effective_comfy = _pick_comfy_url(form_url, header_url, query_url)
PickUrlCall ==
    /\ pc = "pick_call"
    /\ IF _pick_comfy_url(args.form_url, args.header_url, args.query_url) = NoneUrl
       THEN /\ Raise(HTTPException(400, "comfy_url must be provided", "endpoint"))
            /\ UNCHANGED effective_comfy
       ELSE /\ effective_comfy' =
                  _pick_comfy_url(args.form_url, args.header_url, args.query_url)
            /\ pc' = "routes"
            /\ UNCHANGED result
    /\ UNCHANGED <<now, MAX_RETRIES, INPUT_NODE_ID, uploadFailN, file_filename,
                   img_bytes, original_name, stamped, attempt, last_err,
                   comfy_name, template, graph, pid, deadline, polled, history,
                   out_bytes, calls, sent, seen_artifacts, delivered, uploads,
                   posted, last_status, sleeps, other_stamped, args>>

\* the part of each route URL the code appends after the separator
RouteSuffix(route) ==
    IF route = "history" THEN <<"history", "/", pid>> ELSE <<route>>

\* the URL one of the four request statements builds
BuildRouteUrl ==
    /\ pc = "routes"
    /\ \E route \in Routes :
         sent' = [route |-> route,
                  url |-> RouteUrl(effective_comfy, RouteSuffix(route))]
    /\ UNCHANGED <<pc, now, MAX_RETRIES, INPUT_NODE_ID, uploadFailN,
                   file_filename, img_bytes, original_name, effective_comfy,
                   stamped, attempt, last_err, comfy_name, template, graph,
                   pid, deadline, polled, history, out_bytes, calls,
                   seen_artifacts, delivered, uploads, posted, last_status,
                   sleeps, other_stamped, args, result>>

NextUrl == PickUrlCall \/ BuildRouteUrl

SpecUrl == InitUrl /\ [][NextUrl]_vars

----------------------------------------------------------------------------
(* Two requests served by different worker processes *)

\* another request, served by another worker process of the same application,
\* enters _upload_to_comfy: it reads the same wall clock and posts its file
\* under the name it stamped
OtherRequestUpload ==
    /\ other_stamped = ""
    /\ pc \in {"upload", "upload_loop", "load"}
    /\ \E name \in FileNames : other_stamped' = Stamp(now, OriginalName(name))
    /\ UNCHANGED <<pc, now, MAX_RETRIES, INPUT_NODE_ID, uploadFailN,
                   file_filename, img_bytes, original_name, effective_comfy,
                   stamped, attempt, last_err, comfy_name, template, graph,
                   pid, deadline, polled, history, out_bytes, calls, sent,
                   seen_artifacts, delivered, uploads, posted, last_status,
                   sleeps, args, result>>

NextWorkers ==
    \/ RequireKey
    \/ PickUrlAndRead
    \/ UploadEnter
    \/ UploadAttempt
    \/ UploadExhausted
    \/ OtherRequestUpload

SpecWorkers == Init /\ [][NextWorkers]_vars

----------------------------------------------------------------------------
(* Error kinds *)

ErrorKinds == {"ConfigError", "UploadError", "SubmissionError", "TimeoutError",
               "NotFoundError", "FetchError"}

\* the kind a finished request shows its caller: the HTTPException raised at
\* each place of app.py, "Untyped" for an exception app.py lets through
Kind(r) ==
    CASE r.type = "StreamingResponse" -> "Success"
      [] r.type = "HTTPException" /\ r.stage = "auth" -> "Unauthorized"
      [] r.type = "HTTPException" /\ r.stage = "endpoint" -> "ConfigError"
      [] r.type = "HTTPException" /\ r.stage = "upload" -> "UploadError"
      [] r.type = "HTTPException" /\ r.stage = "load" -> "WorkflowReadError"
      [] r.type = "HTTPException" /\ r.stage = "bind" -> "ConfigError"
      [] r.type = "HTTPException" /\ r.stage = "submit" -> "SubmissionError"
      [] r.type = "HTTPException" /\ r.stage = "poll" -> "TimeoutError"
      [] r.type = "HTTPException" /\ r.stage = "fetch" -> "NotFoundError"
      [] OTHER -> "Untyped"

Done == pc = "done"
Failed == Done /\ result.type # "StreamingResponse"
Issued(route) == calls[route] > 0

\* the remote accepted an upload attempt
UploadAccepted == calls["upload/image"] > uploadFailN

\* the stages of a request in their order, and the stage of each route
StageRank ==
    [s \in {"auth", "endpoint", "upload", "load", "bind", "submit", "poll",
            "fetch", "respond"} |->
        CASE s = "auth" -> 0 [] s = "endpoint" -> 1 [] s = "upload" -> 2
          [] s = "load" -> 3 [] s = "bind" -> 4 [] s = "submit" -> 5
          [] s = "poll" -> 6 [] s = "fetch" -> 7 [] s = "respond" -> 8]

RouteStage == [r \in Routes |->
        CASE r = "upload/image" -> "upload" [] r = "prompt" -> "submit"
          [] r = "history" -> "poll" [] r = "view" -> "fetch"]

----------------------------------------------------------------------------
(* C1 *)

\* what has been issued so far respects the order of the stages
CallsInOrder ==
    /\ Issued("prompt") =>
          /\ UploadAccepted
          /\ "image" \in DOMAIN graph[INPUT_NODE_ID].inputs
          /\ graph[INPUT_NODE_ID].inputs.image = stamped
    /\ Issued("history") => Issued("prompt") /\ StrTruthy(pid)
    /\ Issued("view") => Issued("history") /\ history # NoneValue
    /\ Failed =>
          \A r \in Routes :
              StageRank[RouteStage[r]] > StageRank[result.stage] => ~Issued(r)

\* a step that issues a call issues one call, of a stage no later stage has
\* been called after, and a request that has ended issues nothing
CallStepInOrder ==
    /\ \A r \in Routes :
          calls'[r] # calls[r] =>
              /\ calls'[r] = calls[r] + 1
              /\ \A q \in Routes \ {r} :
                    /\ calls'[q] = calls[q]
                    /\ StageRank[RouteStage[q]] > StageRank[RouteStage[r]]
                          => ~Issued(q)
    /\ Done => calls' = calls
    /\ (~Done /\ Done' /\ result'.type # "StreamingResponse") =>
          \A r \in Routes :
              calls'[r] # calls[r] => RouteStage[r] = result'.stage

\* C1: the remote calls of a request occur only in the order upload, prompt,
\* history polls, view, with the graph bound between upload and prompt; once
\* a stage fails no call of a later stage is issued and the request ends with
\* the error of that stage.
C1_StageOrder == [](CallsInOrder) /\ [][CallStepInOrder]_vars

\* a request that polled more than once, timed out and never downloaded
C1_Witness ==
    /\ Failed
    /\ result.stage = "poll"
    /\ result.status_code = 504
    /\ calls["history"] > 1
    /\ calls["prompt"] = 1
    /\ ~Issued("view")

----------------------------------------------------------------------------
(* C5 *)

\* the upload stage is over
UploadOver == comfy_name # NoneStr \/ (Done /\ result.stage = "upload")

\* C5: with retry budget R = MAX_RETRIES and a remote that fails N =
\* uploadFailN attempts and then succeeds, the upload succeeds iff N < R,
\* after exactly N + 1 attempts, and otherwise fails with UploadError (502)
\* after exactly R attempts.
C5_UploadRetries ==
    /\ calls["upload/image"] <= MAX_RETRIES
    /\ UploadOver =>
          /\ (comfy_name # NoneStr) <=> (uploadFailN < MAX_RETRIES)
          /\ comfy_name # NoneStr =>
                /\ calls["upload/image"] = uploadFailN + 1
                /\ comfy_name = stamped
          /\ comfy_name = NoneStr =>
                /\ calls["upload/image"] = MAX_RETRIES
                /\ Kind(result) = "UploadError"
                /\ result.status_code = 502

\* a budget of two used up by a remote that fails more often than that
C5_Witness ==
    /\ Done
    /\ result.stage = "upload"
    /\ MAX_RETRIES = 2
    /\ uploadFailN > 2
    /\ calls["upload/image"] = 2

\* an upload that succeeds on the last attempt of its budget
C5_WitnessSuccess ==
    /\ comfy_name # NoneStr
    /\ MAX_RETRIES = 3
    /\ uploadFailN = 2
    /\ calls["upload/image"] = 3

----------------------------------------------------------------------------
(* C2 *)

\* C2: every request ends in success or in one of the six error kinds; in
\* particular a failure at one of the four remote calls (upload, prompt,
\* history, view) is translated into one of the kinds and never leaves the
\* handler untyped.  The formula is the clause on the remote calls.
C2_RemoteFailuresTyped ==
    (Done /\ result.stage \in {"upload", "submit", "poll", "fetch", "respond"})
        => Kind(result) \in ErrorKinds \cup {"Success"}

----------------------------------------------------------------------------
(* C3 *)

\* in the status document of job p the preferred output node is present with
\* an empty images sequence and another node has a non-empty one
PreferredEmptyOtherReady(hist, p) ==
    /\ p \in DOMAIN hist
    /\ "outputs" \in DOMAIN hist[p]
    /\ \E i \in 1..Len(hist[p].outputs) :
          /\ hist[p].outputs[i][1] = OUTPUT_NODE_ID
          /\ "images" \in DOMAIN hist[p].outputs[i][2]
          /\ Len(hist[p].outputs[i][2].images) = 0
    /\ \E j \in 1..Len(hist[p].outputs) :
          /\ hist[p].outputs[j][1] # OUTPUT_NODE_ID
          /\ "images" \in DOMAIN hist[p].outputs[j][2]
          /\ Len(hist[p].outputs[j][2].images) > 0

\* C3: on a status document whose preferred output node has an empty
\* artifact sequence while another node has a non-empty one, the poller
\* returns that document (Ready) instead of waiting on.
C3_FallbackWhenPreferredEmpty ==
    (polled # NoneValue /\ PreferredEmptyOtherReady(polled, pid))
        => history = polled

----------------------------------------------------------------------------
(* C4 *)

\* C4: if no status answer ever lists a non-empty artifact sequence, the
\* poller ends with TimeoutError, returns no status document, and issues no
\* status request at or after the deadline fixed at entry.  (The formula is
\* the part of the claim a finite run can break: how the poller ends.)
C4_TimeoutWithoutArtifacts ==
    /\ "at" \in DOMAIN sent => sent.at < deadline
    /\ ~seen_artifacts => history = NoneValue
    /\ (~seen_artifacts /\ Done /\ result.stage = "poll")
          => Kind(result) = "TimeoutError"

----------------------------------------------------------------------------
(* C6 *)

\* C6: a request issues at most one submission; a failed submission (error
\* status, or no job identifier in the answer) is reported at once as
\* SubmissionError and not retried, and no status poll is issued without a
\* non-empty job identifier.
C6_SingleSubmission ==
    /\ calls["prompt"] <= 1
    /\ Issued("history") => StrTruthy(pid)
    /\ (Done /\ result.stage = "submit") =>
          /\ Kind(result) = "SubmissionError"
          /\ calls["prompt"] = 1
          /\ ~Issued("history")

----------------------------------------------------------------------------
(* C7 *)

\* the workflow file has been read
Loaded == template # EmptyDict

\* C7: when the template lacks the configured input node key, the request
\* fails with ConfigError and no call to the remote engine is made at any
\* point of the request.
C7_NoCallsWhenNodeMissing ==
    (Loaded /\ INPUT_NODE_ID \notin DOMAIN template) =>
        /\ \A r \in Routes : ~Issued(r)
        /\ Done => Kind(result) = "ConfigError"

----------------------------------------------------------------------------
(* C8 *)

\* mappings f and g agree on every key but k
SameExcept(f, g, k) ==
    /\ DOMAIN f \ {k} = DOMAIN g \ {k}
    /\ \A x \in DOMAIN f \ {k} : f[x] = g[x]

\* the graph has been bound
Bound == pc \in {"queue", "poll", "poll_loop", "fetch"} \/ Issued("prompt")

----------------------------------------------------------------------------
(* C9 *)

Succeeded == Done /\ result.type = "StreamingResponse"

\* C9: a successful request returns the caller's original filename,
\* "image.png" when the caller supplied none, never the stamped upload name
\* and never the name of the remote artifact.
C9_OriginalFilename ==
    Succeeded =>
        /\ result.filename = (IF file_filename = "" THEN "image.png" ELSE file_filename)
        /\ result.filename # stamped
        /\ result.filename # comfy_name
        /\ sent.params.filename # original_name
              => result.filename # sent.params.filename

\* a success for a caller who named the file, the artifact named otherwise
C9_Witness ==
    /\ Succeeded
    /\ file_filename = "cat.png"
    /\ result.filename = "cat.png"
    /\ sent.params.filename = "result.png"

\* a success for a caller who supplied no filename
C9_WitnessFallback ==
    /\ Succeeded
    /\ file_filename = ""
    /\ result.filename = "image.png"

----------------------------------------------------------------------------
(* C10 *)

NonEmptyImages(node) == "images" \in DOMAIN node /\ Len(node.images) > 0

\* the winning node of a ready status document: the preferred node, else the
\* first node in order that has artifacts
Winner(outs) ==
    IF \E i \in 1..Len(outs) : outs[i][1] = OUTPUT_NODE_ID /\ NonEmptyImages(outs[i][2])
    THEN outs[CHOOSE i \in 1..Len(outs) : outs[i][1] = OUTPUT_NODE_ID][2]
    ELSE outs[CHOOSE i \in 1..Len(outs) :
                 /\ NonEmptyImages(outs[i][2])
                 /\ \A j \in 1..(i - 1) : ~NonEmptyImages(outs[j][2])][2]

\* C10: the fetcher issues exactly one download request, built from the first
\* descriptor of the winning node only: filename verbatim, subfolder "" and
\* type "output" when absent; on success the bytes returned are the payload
\* of the answer, unchanged.
C10_FetchFirstDescriptor ==
    /\ calls["view"] <= 1
    /\ (Done /\ result.stage \in {"fetch", "respond"} /\ Kind(result) # "NotFoundError")
          => calls["view"] = 1
    /\ Issued("view") =>
          LET first == Winner(history[pid].outputs).images[1] IN
          /\ sent.route = "view"
          /\ DOMAIN sent.params = {"filename", "subfolder", "type"}
          /\ sent.params.filename = first.filename
          /\ sent.params.subfolder =
                (IF "subfolder" \in DOMAIN first THEN first.subfolder ELSE "")
          /\ sent.params.type =
                (IF "type" \in DOMAIN first THEN first.type ELSE "output")
    /\ Succeeded =>
          /\ result.content = delivered
          /\ out_bytes = delivered

\* a download built from the first of two descriptors, which has neither
\* subfolder nor type, answered with a payload
C10_Witness ==
    /\ Succeeded
    /\ Len(Winner(history[pid].outputs).images) = 2
    /\ "subfolder" \notin DOMAIN Winner(history[pid].outputs).images[1]
    /\ sent.params = [filename |-> "result.png", subfolder |-> "", type |-> "output"]
    /\ result.content = "PNGDATA"

----------------------------------------------------------------------------
(* C11 *)

\* the status document has an outputs mapping for job p and none of its nodes
\* has a non-empty images sequence
NoArtifactsAnywhere(hist, p) ==
    /\ p \in DOMAIN hist
    /\ "outputs" \in DOMAIN hist[p]
    /\ \A i \in 1..Len(hist[p].outputs) : ~NonEmptyImages(hist[p].outputs[i][2])

\* C11: on a status document of the job in which every output node has an
\* empty or missing images sequence, the preferred node included, the fetcher
\* fails with NotFoundError and issues no download request.
C11_NotFoundWithoutArtifacts ==
    NoArtifactsAnywhere(history, pid) =>
        /\ ~Issued("view")
        /\ Done => /\ Kind(result) = "NotFoundError"
                   /\ result.status_code = 500

\* the fetcher has ended on a document whose preferred node has an empty
\* images sequence and whose other node has none either
C11_Witness ==
    /\ Done
    /\ NoArtifactsAnywhere(history, pid)
    /\ Len(history[pid].outputs) = 2
    /\ history[pid].outputs[1] = <<OUTPUT_NODE_ID, [images |-> <<>>]>>
    /\ Kind(result) = "NotFoundError"

----------------------------------------------------------------------------
(* C12 *)

\* the "raise HTTPException" statements that report one of the error kinds,
\* with the status code each one carries
RaiseSites ==
    { [line |-> 28, status_code |-> 400, kind |-> "ConfigError"],
      [line |-> 45, status_code |-> 502, kind |-> "UploadError"],
      [line |-> 52, status_code |-> 500, kind |-> "SubmissionError"],
      [line |-> 72, status_code |-> 504, kind |-> "TimeoutError"],
      [line |-> 83, status_code |-> 500, kind |-> "NotFoundError"],
      [line |-> 150, status_code |-> 500, kind |-> "ConfigError"] }

\* C12: each error kind reaches the caller with a code that tells it from
\* every other kind: the code a failed request ends with is the code of no
\* other kind.
C12_DistinctCodes ==
    (Failed /\ Kind(result) \in ErrorKinds) =>
        /\ \E s \in RaiseSites :
              s.kind = Kind(result) /\ s.status_code = result.status_code
        /\ \A s \in RaiseSites :
              s.kind # Kind(result) => s.status_code # result.status_code

----------------------------------------------------------------------------
(* C13 *)

Sep == "/"

\* s ends with exactly one separator
EndsWithOneSep(s) ==
    /\ Len(s) >= 1
    /\ s[Len(s)] = Sep
    /\ Len(s) >= 2 => s[Len(s) - 1] # Sep

\* s is u without its trailing separators, followed by one separator
TrailingSepsReplaced(s, u) ==
    \E k \in 0..Len(u) :
        /\ s = SubSeq(u, 1, k) \o <<Sep>>
        /\ \A i \in (k + 1)..Len(u) : u[i] = Sep
        /\ k >= 1 => u[k] # Sep

\* u is base, one separator, suffix, and base does not end with a separator
OneSepBetween(u, suffix) ==
    /\ Len(u) > Len(suffix)
    /\ SubSeq(u, Len(u) - Len(suffix) + 1, Len(u)) = suffix
    /\ EndsWithOneSep(SubSeq(u, 1, Len(u) - Len(suffix)))

\* C13: for every non-empty base URL supplied, ending with no, one or several
\* separators, the resolved endpoint ends with exactly one separator and
\* every route URL built from it has exactly one separator between base and
\* route suffix; normalizing a normalized endpoint changes nothing.
C13_OneSeparator ==
    pc = "routes" =>
        /\ EndsWithOneSep(effective_comfy)
        /\ \E u \in {args.form_url, args.header_url, args.query_url} :
              u # NoneUrl /\ TrailingSepsReplaced(effective_comfy, u)
        /\ Normalize(effective_comfy) = effective_comfy
        /\ sent # NoneValue =>
              /\ OneSepBetween(sent.url, RouteSuffix(sent.route))
              /\ sent.url = SubSeq(effective_comfy, 1, Len(effective_comfy) - 1)
                               \o <<Sep>> \o RouteSuffix(sent.route)

\* a base URL given with several trailing separators, and a route built on it
C13_Witness ==
    /\ pc = "routes"
    /\ args.form_url = <<"host", "/", "/">>
    /\ effective_comfy = <<"host", "/">>
    /\ sent # NoneValue
    /\ sent.url = <<"host", "/", "upload/image">>

----------------------------------------------------------------------------
(* C14 *)

\* a candidate that counts as empty: missing, empty or whitespace only
Blank(u) == u = NoneUrl \/ \A i \in 1..Len(u) : u[i] = " "

\* the candidates in their priority order
Candidates == <<args.form_url, args.header_url, args.query_url>>

\* C14: the endpoint is the first non-empty candidate in the order form
\* field, header, query parameter, a missing, empty or whitespace-only value
\* counting as empty; if all three are empty the request fails with a
\* configuration error before any remote call.
C14_FirstNonEmptyWins ==
    pc # "pick_call" =>
        IF \A i \in 1..3 : Blank(Candidates[i])
        THEN /\ Done
             /\ Kind(result) = "ConfigError"
             /\ result.status_code = 400
             /\ effective_comfy = NoneUrl
             /\ \A r \in Routes : ~Issued(r)
        ELSE /\ result = NoResult
             /\ \E i \in 1..3 :
                   /\ ~Blank(Candidates[i])
                   /\ \A j \in 1..(i - 1) : Blank(Candidates[j])
                   /\ TrailingSepsReplaced(effective_comfy, Candidates[i])

\* the form field is whitespace only, header and query differ: the header wins
C14_Witness ==
    /\ pc = "routes"
    /\ args.form_url = <<" ">>
    /\ args.header_url = <<"host">>
    /\ args.query_url = <<"/", "host">>
    /\ effective_comfy = <<"host", "/">>

\* nothing supplied
C14_WitnessNone ==
    /\ Done
    /\ args.form_url = NoneUrl
    /\ args.header_url = <<>>
    /\ args.query_url = <<" ", " ">>
    /\ result.status_code = 400

----------------------------------------------------------------------------
(* C15 *)

\* the poller has returned a status document to mask()
PollReturned == history # NoneValue

\* C15: whenever the poller has returned a status document, the fetcher's
\* selection on that document and job is the node the poller selected, that
\* node has a non-empty images sequence, and the request never ends with
\* NotFoundError: once the fetcher has run, the download was requested for
\* the first descriptor of that node.
C15_SelectionsAgree ==
    PollReturned =>
        /\ pid \in DOMAIN history
        /\ "outputs" \in DOMAIN history[pid]
        /\ FetchSelect(history[pid].outputs) = PollSelect(history[pid].outputs)
        /\ FetchSelect(history[pid].outputs) = Winner(history[pid].outputs)
        /\ NonEmptyImages(FetchSelect(history[pid].outputs))
        /\ Done => /\ Kind(result) # "NotFoundError"
                   /\ Issued("view")
                   /\ sent.params.filename =
                         PollSelect(history[pid].outputs).images[1].filename

\* the request has ended after a poll that returned a document whose
\* preferred node is an empty mapping, so both selections fell back to the
\* first node with artifacts
C15_Witness ==
    /\ Done
    /\ PollReturned
    /\ OutputsGet(history[pid].outputs, OUTPUT_NODE_ID) = EmptyDict
    /\ PollSelect(history[pid].outputs) = [images |-> <<D2>>]
    /\ sent.params.filename = "mask.png"

----------------------------------------------------------------------------
(* C16 *)

\* while the loop runs every status request so far was followed by one sleep
\* of the interval; after a return the last one was not
SleepsBetweenPolls ==
    /\ pc = "poll_loop" =>
          /\ sleeps.poll = calls["history"]
          /\ now >= (deadline - POLL_TIMEOUT_S * 1000)
                       + sleeps.poll * POLL_INTERVAL_S * 1000
    /\ PollReturned => sleeps.poll = calls["history"] - 1

\* the step is a status request whose answer is an HTTP status other than 200
PollNon200Step ==
    /\ calls'["history"] = calls["history"] + 1
    /\ last_status' \notin {0, 200}

\* the step is a status request answered 200 with a parsed document
Poll200Step ==
    /\ calls'["history"] = calls["history"] + 1
    /\ last_status' = 200
    /\ result'.type # "requests.JSONDecodeError"

\* the step sleeps once, for the interval, and the loop goes on
SleepsOnceAndContinues ==
    /\ sleeps'.poll = sleeps.poll + 1
    /\ \E took \in RequestMs : now' - now = took + POLL_INTERVAL_S * 1000
    /\ pc' = "poll_loop"
    /\ result' = NoResult
    /\ history' = NoneValue

PollStepSleeps ==
    /\ calls'["history"] # calls["history"] =>
          /\ pc = "poll_loop"
          /\ sleeps.poll = calls["history"]
    /\ PollNon200Step => SleepsOnceAndContinues
    /\ (Poll200Step /\ ~PollReady(polled', pid)) => SleepsOnceAndContinues
    /\ (Poll200Step /\ PollReady(polled', pid)) =>
          /\ sleeps' = sleeps
          /\ now' - now \in RequestMs
          /\ history' = polled'
          /\ pc' = "fetch"
    /\ calls'["history"] = calls["history"] => sleeps'.poll = sleeps.poll

\* C16: between two consecutive status requests of one poll exactly one sleep
\* of POLL_INTERVAL_S occurs, after a non-200 answer, after a 200 answer
\* without an entry for the job and after a 200 answer with no ready node; a
\* non-200 answer never ends the poll; an answer that is ready makes the
\* poller return without sleeping.
C16_NoBusyLoop == [](SleepsBetweenPolls) /\ [][PollStepSleeps]_vars

\* a poll that asked three times and slept twice, once after each answer
\* that was not ready, and returned on the third answer without sleeping
C16_Witness ==
    /\ PollReturned
    /\ calls["history"] = 3
    /\ sleeps.poll = 2
    /\ now >= (deadline - POLL_TIMEOUT_S * 1000) + 2 * POLL_INTERVAL_S * 1000

\* the loop goes on after a 500 answer and one sleep
C16_WitnessNon200 ==
    /\ pc = "poll_loop"
    /\ last_status = 500
    /\ calls["history"] = 2
    /\ sleeps.poll = 2

----------------------------------------------------------------------------
(* C17 *)

\* lines 148-151 have run: they raised, or the graph went on to submission
BindOver ==
    \/ Done /\ result.stage = "bind"
    \/ pc \in {"queue", "poll", "poll_loop", "fetch"}
    \/ Done /\ StageRank[result.stage] > StageRank["bind"]

\* C17: binding fails iff INPUT_NODE_ID is no key of the template, and then
\* with ConfigError: a template that has the key is bound whatever the node
\* holds, an empty node mapping included, and an absent key gives ConfigError
\* also when INPUT_NODE_ID is not a numeric string.
C17_BindFailsIffAbsent ==
    BindOver =>
        /\ (Done /\ result.stage = "bind") <=> (INPUT_NODE_ID \notin DOMAIN template)
        /\ (Done /\ result.stage = "bind") => Kind(result) = "ConfigError"
        /\ INPUT_NODE_ID \in DOMAIN template =>
              /\ "inputs" \in DOMAIN graph[INPUT_NODE_ID]
              /\ graph[INPUT_NODE_ID].inputs.image = comfy_name

----------------------------------------------------------------------------
(* C18 *)

\* C18: all upload attempts of a request carry the same stamped name, the one
\* computed before the first attempt, and the same bytes; in a request that
\* reaches submission the graph posted to prompt has as inputs.image of the
\* input node the filename sent in the attempt that succeeded, the last one.
C18_PostedImageIsUploadedName ==
    /\ Len(uploads) = calls["upload/image"]
    /\ \A i \in 1..Len(uploads) :
          /\ uploads[i] = uploads[1]
          /\ uploads[i].filename = stamped
          /\ uploads[i].bytes = img_bytes
    /\ Issued("prompt") =>
          /\ Len(uploads) = uploadFailN + 1
          /\ "prompt" \in DOMAIN posted
          /\ "inputs" \in DOMAIN posted.prompt[INPUT_NODE_ID]
          /\ posted.prompt[INPUT_NODE_ID].inputs.image
                = uploads[Len(uploads)].filename

\* a graph posted after an upload that succeeded at its third attempt, two
\* backoff sleeps after the name was stamped
C18_Witness ==
    /\ Issued("prompt")
    /\ Len(uploads) = 3
    /\ sleeps.upload = 2
    /\ posted.prompt[INPUT_NODE_ID].inputs.image = uploads[3].filename
    /\ uploads[3].filename = Stamp(0, "cat.png")

----------------------------------------------------------------------------
(* C19 *)

\* C19: two distinct requests never upload to the remote store under the
\* same stamped name, also when they run at the same time and carry the same
\* original filename.
C19_StampedNamesUnique ==
    (Len(uploads) > 0 /\ other_stamped # "") =>
        \A i \in 1..Len(uploads) : uploads[i].filename # other_stamped

----------------------------------------------------------------------------
(* C20 *)

\* C20: an upload that has made k attempts and is over has slept exactly
\* k - 1 times, each for UPLOAD_BACKOFF_S: no sleep follows the final
\* attempt, neither when it succeeded nor when the budget is used up and
\* UploadError is raised.
C20_SleepsOnlyBetweenAttempts ==
    /\ (UploadOver /\ Issued("upload/image")) =>
          sleeps.upload = calls["upload/image"] - 1
    /\ (pc = "upload_loop" /\ ~RangeDone(attempt, MAX_RETRIES)
          /\ Issued("upload/image")) =>
          sleeps.upload = calls["upload/image"]

====
